---- MODULE Spec2Model ----
(***************************************************************************)
(* Model of game/transport/pathfinding/trip/mod.rs: the Trip actor (spawn, *)
(* location_resolved, finish) and the TripCreator batching scheduler       *)
(* (add_lane_for_trip, wake).                                              *)
(*                                                                         *)
(* Actors talk by asynchronous messages.  Messages in flight are kept in   *)
(* bags (no order between them).  The location resolver, the lane network, *)
(* the listener and the timer service are outside this file: they are the  *)
(* environment, and appear as the actions that answer the requests the     *)
(* code sends them.  Instants are carried through unchanged by the code    *)
(* and are not modelled.                                                   *)
(***************************************************************************)
EXTENDS Integers, Sequences, FiniteSets, Bags

\* ---------------------------------------------------------------- bounds
\* Trip ids the actor system can hand out.
MaxTrips == 2
\* Trips requested by outside callers (Trip::spawn with any listener).
MaxRequests == 1
\* Lanes the pending collection of the TripCreator may hold.
MaxPending == 4
\* Wake-ups scheduled and not yet delivered.
MaxWakeUps == 2
\* Unsolicited location_resolved messages an outside actor may send.
MaxInject == 1

\* ------------------------------------------------------- program constants
\* Ticks(50) in add_lane_for_trip
WakeUpDelay == 50
\* max_velocity: 8.0 of the Obstacle in location_resolved
MaxVelocity == 8
\* const DEBUG_FAILED_TRIPS_VISUALLY: bool = false
DEBUG_FAILED_TRIPS_VISUALLY == FALSE

\* ------------------------------------------------------------------ types
TripIds == 1 .. MaxTrips
\* LaneID values; (*source).into() reuses the raw id as a RoughLocationID.
Lanes == {1, 2, 3}
RoughLocationID == Lanes
LaneAsRough(lane_id) == lane_id
\* The one listener an outside caller may pass.
Listeners == {"L"}

\* Option<T>
None == <<>>
Some(x) == <<x>>
IsSome(o) == o # None
Unwrap(o) == o[1]

\* PreciseLocation {node, offset}: what the resolver answers for each rough
\* location when it can resolve it.
Attachment(rough) ==
    CASE rough = 1 -> [node |-> 1, offset |-> 5]
      [] rough = 2 -> [node |-> 2, offset |-> 1]
      [] OTHER     -> [node |-> 3, offset |-> 0]
PreciseLocation == {Attachment(r) : r \in RoughLocationID}

\* enum TripFate
TripFate == {"Success", "SourceOrDestinationNotResolvable", "NoRoute",
             "RouteForgotten", "HopDisconnected", "LaneUnbuilt", "ForceStopped"}
\* The fates with which the lane network ends an inserted car's trip.
NetworkFates == {"Success", "NoRoute", "RouteForgotten", "HopDisconnected",
                 "LaneUnbuilt"}

\* struct TripResult
TripResult(location_now, fate) == [location_now |-> location_now, fate |-> fate]

\* struct Trip, plus the actor's liveness ("unspawned", "alive", "dead").
NoTrip ==
    [status |-> "unspawned", rough_source |-> 0, rough_destination |-> 0,
     source |-> None, destination |-> None, listener |-> None]

\* No TripCreator handler has run yet.
NoCall == [op |-> "none"]

VARIABLES
    trips,        \* trip id -> Trip
    nextId,       \* next trip id the actor system hands out
    resolving,    \* bag of resolve_as_location requests not yet answered
    finishing,    \* bag of finish messages in flight
    cars,         \* bag of add_car requests the network has not yet ended
    issued,       \* trip id -> sequence of rough locations it asked to resolve
    responses,    \* trip id -> sequence of location_resolved messages handled
    inserted,     \* trip id -> sequence of add_car requests it sent
    finished,     \* trip id -> sequence of results its finish handler handled
    listenerLog,  \* trip id -> sequence of notifications sent to its listener
    printed,      \* trip id -> sequence of "failed!" diagnostics printed
    debuggers,    \* sequence of FailedTripDebugger spawns
    panicked,     \* unreachable!() was hit
    injected,     \* number of unsolicited location_resolved messages sent
    lanes,        \* TripCreator.lanes
    wakeUps,      \* delays of the wake-ups scheduled and not yet delivered
    last          \* the TripCreator's latest handler invocation and the state
                  \* it started from

tripVars == <<trips, nextId, resolving, finishing, cars, issued, responses,
              inserted, finished, listenerLog, printed, debuggers, panicked,
              injected>>
creatorVars == <<lanes, wakeUps, last>>
vars == <<trips, nextId, resolving, finishing, cars, issued, responses,
          inserted, finished, listenerLog, printed, debuggers, panicked,
          injected, lanes, wakeUps, last>>

\* ---------------------------------------------------------------- helpers
BagOfSeq(s) == [x \in {s[i] : i \in DOMAIN s} |-> Cardinality({i \in DOMAIN s : s[i] = x})]
BagAdd(b, x) == b (+) SetToBag({x})
BagRemove(b, x) == b (-) SetToBag({x})

\* What one handler invocation did: the trip it leaves, the messages it sent
\* and whether it returned Fate::Die or hit unreachable!().
NoEffects(trip) ==
    [trip |-> trip, resolve |-> <<>>, add_car |-> <<>>, finish |-> <<>>,
     notify |-> <<>>, printed |-> <<>>, debugger |-> <<>>,
     die |-> FALSE, panic |-> FALSE]

\* --------------------------------------------------------------- the Trip
\* Variant of Trip::spawn: both rough endpoints are requested at once.
Trip_spawn_AsksBoth(id, rough_source, rough_destination, listener) ==
    [NoEffects([status |-> "alive", rough_source |-> rough_source,
                rough_destination |-> rough_destination,
                source |-> None, destination |-> None, listener |-> listener])
     EXCEPT !.resolve = <<[requester |-> id, rough |-> rough_source],
                          [requester |-> id, rough |-> rough_destination]>>,
            !.notify = IF IsSome(listener)
                         THEN <<[listener |-> Unwrap(listener),
                                 message |-> "trip_created", trip |-> id]>>
                         ELSE <<>>]

\* Variant of Trip::spawn: the listener is not told of the new trip.
Trip_spawn_Silent(id, rough_source, rough_destination, listener) ==
    [NoEffects([status |-> "alive", rough_source |-> rough_source,
                rough_destination |-> rough_destination,
                source |-> None, destination |-> None, listener |-> listener])
     EXCEPT !.resolve = <<[requester |-> id, rough |-> rough_source]>>]

\* Trip::spawn
Trip_spawn(id, rough_source, rough_destination, listener) ==
    [NoEffects([status |-> "alive", rough_source |-> rough_source,
                rough_destination |-> rough_destination,
                source |-> None, destination |-> None, listener |-> listener])
     EXCEPT !.resolve = <<[requester |-> id, rough |-> rough_source]>>,
            !.notify = IF IsSome(listener)
                         THEN <<[listener |-> Unwrap(listener),
                                 message |-> "trip_created", trip |-> id]>>
                         ELSE <<>>]

\* Variant of LaneCar: the car is given its source as destination.
LaneCar_CarriesSource(id, source, destination) ==
    [to |-> source.node,
     trip |-> id,
     position |-> source.offset,
     velocity |-> 0,
     max_velocity |-> MaxVelocity,
     acceleration |-> 0,
     destination |-> source,
     next_hop_interaction |-> None,
     from |-> None]

\* The add_car request: the LaneCar, addressed to the source's node
\* (LaneLikeID::from_raw(source.node.as_raw())), with no `from`.
LaneCar(id, source, destination) ==
    [to |-> source.node,
     trip |-> id,
     position |-> source.offset,
     velocity |-> 0,
     max_velocity |-> MaxVelocity,
     acceleration |-> 0,
     destination |-> destination,
     next_hop_interaction |-> None,
     from |-> None]

\* if let (Some(source), Some(destination)) = (self.source, self.destination)
InsertIfBoth(id, eff) ==
    IF IsSome(eff.trip.source) /\ IsSome(eff.trip.destination)
      THEN [eff EXCEPT !.add_car =
               <<LaneCar(id, Unwrap(eff.trip.source), Unwrap(eff.trip.destination))>>]
      ELSE eff

\* Variant of OnSource: the destination is requested even when it is the
\* source.
OnSource_AlwaysAsksDestination(id, trip, location) ==
    [NoEffects([trip EXCEPT !.source = location,
                            !.destination = IF trip.rough_source = trip.rough_destination
                                              THEN location ELSE @])
     EXCEPT !.resolve = <<[requester |-> id, rough |-> trip.rough_destination]>>]

\* Variant of OnSource: the source's answer is taken for the destination
\* too, whatever the destination is.
OnSource_SetsBoth(id, trip, location) ==
    NoEffects([trip EXCEPT !.source = location, !.destination = location])

\* The branch rough_location == self.rough_source.
OnSource(id, trip, location) ==
    IF trip.rough_source = trip.rough_destination
      THEN NoEffects([trip EXCEPT !.source = location, !.destination = location])
      ELSE [NoEffects([trip EXCEPT !.source = location])
            EXCEPT !.resolve = <<[requester |-> id, rough |-> trip.rough_destination]>>]

\* The branch rough_location == self.rough_destination.
OnDestination(id, trip, location) ==
    NoEffects([trip EXCEPT !.destination = location])

\* Variant of OnFailure: location_now is the rough location that failed.
OnFailure_ReportsFailedLocation(id, trip, rough_location) ==
    [NoEffects(trip) EXCEPT !.finish =
        <<[trip |-> id,
           result |-> TripResult(Some(rough_location),
                                 "SourceOrDestinationNotResolvable")]>>]

\* Variant of OnFailure: a failed source still requests the destination.
OnFailure_StillAsksDestination(id, trip, rough_location) ==
    [NoEffects(trip) EXCEPT
        !.finish = <<[trip |-> id,
                      result |-> TripResult(Some(trip.rough_source),
                                            "SourceOrDestinationNotResolvable")]>>,
        !.resolve = IF rough_location = trip.rough_source
                      THEN <<[requester |-> id, rough |-> trip.rough_destination]>>
                      ELSE <<>>]

\* Variant of OnFailure: the failure is not reported, the Trip just stays.
OnFailure_StaysSilent(id, trip, rough_location) == NoEffects(trip)

\* The branch location == None: the Trip sends itself finish.
OnFailure(id, trip, rough_location) ==
    [NoEffects(trip) EXCEPT !.finish =
        <<[trip |-> id,
           result |-> TripResult(Some(trip.rough_source),
                                 "SourceOrDestinationNotResolvable")]>>]

\* Variant of location_resolved: with distinct endpoints the join is only
\* tried when the destination arrives.
location_resolved_JoinsOnlyOnDestination(id, trip, rough_location, location) ==
    IF IsSome(location)
      THEN IF rough_location = trip.rough_source
             THEN IF trip.rough_source = trip.rough_destination
                    THEN InsertIfBoth(id, OnSource(id, trip, location))
                    ELSE OnSource(id, trip, location)
             ELSE IF rough_location = trip.rough_destination
                    THEN InsertIfBoth(id, OnDestination(id, trip, location))
                    ELSE [NoEffects(trip) EXCEPT !.panic = TRUE]
      ELSE OnFailure(id, trip, rough_location)

\* Variant of location_resolved: whatever is not the source is taken for the
\* destination (as FailedTripDebugger::position_resolved does).
location_resolved_ElseIsDestination(id, trip, rough_location, location) ==
    IF IsSome(location)
      THEN IF rough_location = trip.rough_source
             THEN InsertIfBoth(id, OnSource(id, trip, location))
             ELSE InsertIfBoth(id, OnDestination(id, trip, location))
      ELSE OnFailure(id, trip, rough_location)

\* <Trip as LocationRequester>::location_resolved
location_resolved(id, trip, rough_location, location) ==
    IF IsSome(location)
      THEN IF rough_location = trip.rough_source
             THEN InsertIfBoth(id, OnSource(id, trip, location))
             ELSE IF rough_location = trip.rough_destination
                    THEN InsertIfBoth(id, OnDestination(id, trip, location))
                    ELSE [NoEffects(trip) EXCEPT !.panic = TRUE]
      ELSE OnFailure(id, trip, rough_location)

\* Variant of finish: the listener is told, but the Trip does not die.
finish_StaysAlive(id, trip, result) ==
    [NoEffects(trip) EXCEPT
       !.notify = IF IsSome(trip.listener)
                    THEN <<[listener |-> Unwrap(trip.listener),
                            message |-> "trip_result", trip |-> id,
                            result |-> result,
                            rough_source |-> trip.rough_source,
                            rough_destination |-> trip.rough_destination]>>
                    ELSE <<>>]

\* Variant of finish: only Success is spared the diagnostic.
finish_ReportsForceStopped(id, trip, result) ==
    LET failed == result.fate # "Success" IN
    [NoEffects(trip) EXCEPT
       !.printed = IF failed
                     THEN <<[trip |-> id, reason |-> result.fate,
                             rough_source |-> trip.rough_source,
                             source |-> trip.source,
                             rough_destination |-> trip.rough_destination,
                             destination |-> trip.destination]>>
                     ELSE <<>>,
       !.debugger = IF failed /\ DEBUG_FAILED_TRIPS_VISUALLY
                      THEN <<[rough_source |-> trip.rough_source,
                              rough_destination |-> trip.rough_destination]>>
                      ELSE <<>>,
       !.notify = IF IsSome(trip.listener)
                    THEN <<[listener |-> Unwrap(trip.listener),
                            message |-> "trip_result", trip |-> id,
                            result |-> result,
                            rough_source |-> trip.rough_source,
                            rough_destination |-> trip.rough_destination]>>
                    ELSE <<>>,
       !.die = TRUE]

\* Trip::finish
finish(id, trip, result) ==
    LET failed == result.fate \notin {"Success", "ForceStopped"} IN
    [NoEffects(trip) EXCEPT
       !.printed = IF failed
                     THEN <<[trip |-> id, reason |-> result.fate,
                             rough_source |-> trip.rough_source,
                             source |-> trip.source,
                             rough_destination |-> trip.rough_destination,
                             destination |-> trip.destination]>>
                     ELSE <<>>,
       !.debugger = IF failed /\ DEBUG_FAILED_TRIPS_VISUALLY
                      THEN <<[rough_source |-> trip.rough_source,
                              rough_destination |-> trip.rough_destination]>>
                      ELSE <<>>,
       !.notify = IF IsSome(trip.listener)
                    THEN <<[listener |-> Unwrap(trip.listener),
                            message |-> "trip_result", trip |-> id,
                            result |-> result,
                            rough_source |-> trip.rough_source,
                            rough_destination |-> trip.rough_destination]>>
                    ELSE <<>>,
       !.die = TRUE]

\* The effects of one handler invocation of trip `id` applied to the world;
\* resolvingLeft, finishingLeft and carsLeft are the requests and messages in
\* flight without the one this invocation consumed.
Apply(id, eff, resolvingLeft, finishingLeft, carsLeft) ==
    /\ trips' = [trips EXCEPT ![id] =
                   IF eff.die THEN [eff.trip EXCEPT !.status = "dead"] ELSE eff.trip]
    /\ resolving' = resolvingLeft (+) BagOfSeq(eff.resolve)
    /\ issued' = [issued EXCEPT ![id] = @ \o [i \in DOMAIN eff.resolve |-> eff.resolve[i].rough]]
    /\ cars' = carsLeft (+) BagOfSeq(eff.add_car)
    /\ inserted' = [inserted EXCEPT ![id] = @ \o eff.add_car]
    /\ finishing' = finishingLeft (+) BagOfSeq(eff.finish)
    /\ listenerLog' = [listenerLog EXCEPT ![id] = @ \o eff.notify]
    /\ printed' = [printed EXCEPT ![id] = @ \o eff.printed]
    /\ debuggers' = debuggers \o eff.debugger
    /\ panicked' = (panicked \/ eff.panic)

Init ==
    /\ trips = [t \in TripIds |-> NoTrip]
    /\ nextId = 1
    /\ resolving = EmptyBag
    /\ finishing = EmptyBag
    /\ cars = EmptyBag
    /\ issued = [t \in TripIds |-> <<>>]
    /\ responses = [t \in TripIds |-> <<>>]
    /\ inserted = [t \in TripIds |-> <<>>]
    /\ finished = [t \in TripIds |-> <<>>]
    /\ listenerLog = [t \in TripIds |-> <<>>]
    /\ printed = [t \in TripIds |-> <<>>]
    /\ debuggers = <<>>
    /\ panicked = FALSE
    /\ injected = 0
    /\ lanes = <<>>
    /\ wakeUps = <<>>
    /\ last = NoCall

\* An outside caller spawns a Trip (TripID::spawn -> Trip::spawn).
Spawn ==
    /\ ~panicked
    /\ nextId <= MaxRequests
    /\ nextId \in TripIds
    /\ \E rough_source \in RoughLocationID, rough_destination \in RoughLocationID,
          listener \in {None} \cup {Some(l) : l \in Listeners} :
         Apply(nextId, Trip_spawn(nextId, rough_source, rough_destination, listener),
               resolving, finishing, cars)
    /\ nextId' = nextId + 1
    /\ UNCHANGED <<responses, finished, injected, lanes, wakeUps, last>>

\* Trip `id` handles location_resolved(rough_location, location).
HandleLocationResolved(id, rough_location, location, resolvingLeft) ==
    /\ Apply(id, location_resolved(id, trips[id], rough_location, location),
             resolvingLeft, finishing, cars)
    /\ responses' = [responses EXCEPT ![id] =
                       Append(@, [rough |-> rough_location, location |-> location])]
    /\ UNCHANGED <<nextId, finished, lanes, wakeUps, last>>

\* The resolver answers a request of a live Trip (absent, or the attachment
\* of the rough location) and the Trip handles the location_resolved message.
ResolverAnswers ==
    /\ ~panicked
    /\ \E req \in BagToSet(resolving) :
         /\ trips[req.requester].status = "alive"
         /\ \E location \in {None, Some(Attachment(req.rough))} :
              HandleLocationResolved(req.requester, req.rough, location,
                                     BagRemove(resolving, req))
    /\ UNCHANGED injected

\* The resolver's answer reaches a Trip that has died: the message is dropped.
AnswerDropped ==
    /\ ~panicked
    /\ \E req \in BagToSet(resolving) :
         /\ trips[req.requester].status = "dead"
         /\ resolving' = BagRemove(resolving, req)
    /\ UNCHANGED <<trips, nextId, finishing, cars, issued, responses, inserted,
                   finished, listenerLog, printed, debuggers, panicked, injected,
                   lanes, wakeUps, last>>

\* An outside actor sends a live Trip a location_resolved message it did not
\* ask for (any rough location, absent or its attachment), and the Trip
\* handles it.
Inject ==
    /\ ~panicked
    /\ injected < MaxInject
    /\ \E id \in TripIds, rough_location \in RoughLocationID,
          answer \in {"absent", "attachment"} :
         LET location == IF answer = "absent" THEN None
                         ELSE Some(Attachment(rough_location)) IN
         /\ trips[id].status = "alive"
         /\ HandleLocationResolved(id, rough_location, location, resolving)
    /\ injected' = injected + 1

\* Trip `id` handles finish(result): Trip::finish runs and the Trip dies.
HandleFinish(id, result, finishingLeft, carsLeft) ==
    /\ Apply(id, finish(id, trips[id], result), resolving, finishingLeft, carsLeft)
    /\ finished' = [finished EXCEPT ![id] = Append(@, result)]
    /\ UNCHANGED <<nextId, responses, injected, lanes, wakeUps, last>>

\* A finish message (the Trip's own, or a cancellation) reaches a live Trip.
FinishDelivered ==
    /\ ~panicked
    /\ \E msg \in BagToSet(finishing) :
         /\ trips[msg.trip].status = "alive"
         /\ HandleFinish(msg.trip, msg.result, BagRemove(finishing, msg), cars)

\* A finish message reaches a Trip that has died: the message is dropped.
FinishDropped ==
    /\ ~panicked
    /\ \E msg \in BagToSet(finishing) :
         /\ trips[msg.trip].status = "dead"
         /\ finishing' = BagRemove(finishing, msg)
    /\ UNCHANGED <<trips, nextId, resolving, cars, issued, responses, inserted,
                   finished, listenerLog, printed, debuggers, panicked, injected,
                   lanes, wakeUps, last>>

\* The terminal results the network may report for an inserted car.
NetworkResults(trip) ==
    {TripResult(location_now, fate) :
        location_now \in {None, Some(trip.rough_destination)},
        fate \in NetworkFates}

\* The lane network ends the trip of a car it was asked to add: it sends the
\* car's Trip one terminal result, which the live Trip handles.
NetworkResult ==
    /\ ~panicked
    /\ \E car \in BagToSet(cars) :
         /\ trips[car.trip].status = "alive"
         /\ \E result \in NetworkResults(trips[car.trip]) :
              HandleFinish(car.trip, result, finishing, BagRemove(cars, car))

\* The network's terminal result reaches a Trip that has died: dropped.
NetworkResultDropped ==
    /\ ~panicked
    /\ \E car \in BagToSet(cars) :
         /\ trips[car.trip].status = "dead"
         /\ cars' = BagRemove(cars, car)
    /\ UNCHANGED <<trips, nextId, resolving, finishing, issued, responses,
                   inserted, finished, listenerLog, printed, debuggers, panicked,
                   injected, lanes, wakeUps, last>>

\* An outside actor cancels a live Trip: finish with fate ForceStopped.
ForceStop ==
    /\ ~panicked
    /\ \E id \in TripIds :
         LET msg == [trip |-> id, result |-> TripResult(None, "ForceStopped")] IN
         /\ trips[id].status = "alive"
         /\ ~BagIn(msg, finishing)
         /\ finishing' = BagAdd(finishing, msg)
    /\ UNCHANGED <<trips, nextId, resolving, cars, issued, responses, inserted,
                   finished, listenerLog, printed, debuggers, panicked, injected,
                   lanes, wakeUps, last>>

\* An outside actor sends a live Trip finish with any result, in whatever state
\* the Trip is, and the Trip handles it.
AnyFinish ==
    /\ ~panicked
    /\ \E id \in TripIds, fate \in TripFate :
         /\ trips[id].status = "alive"
         /\ \E location_now \in {None, Some(trips[id].rough_source)} :
              HandleFinish(id, TripResult(location_now, fate), finishing, cars)

\* ------------------------------------------------------- the TripCreator
\* Variant of WakeUpNeeded: a single pending lane already schedules.
WakeUpNeeded_AtLeastOne(len) == len >= 1

\* Variant of WakeUpNeeded: only a third pending lane schedules.
WakeUpNeeded_MoreThanTwo(len) == len > 2

\* if self.lanes.len() > 1
WakeUpNeeded(len) == len > 1

\* TripCreator::add_lane_for_trip
add_lane_for_trip ==
    /\ ~panicked
    /\ Len(lanes) < MaxPending
    /\ \E lane_id \in Lanes :
         /\ lanes' = Append(lanes, lane_id)
         /\ IF WakeUpNeeded(Len(lanes'))
              THEN /\ Len(wakeUps) < MaxWakeUps
                   /\ wakeUps' = Append(wakeUps, WakeUpDelay)
              ELSE wakeUps' = wakeUps
         /\ last' = [op |-> "add_lane_for_trip", lane_id |-> lane_id,
                     lanes |-> lanes, wakeUps |-> wakeUps]
    /\ UNCHANGED tripVars

\* The orders thread_rng().shuffle may leave a sequence in.
Shuffles(s) ==
    {[i \in DOMAIN s |-> s[p[i]]] :
        p \in {q \in [DOMAIN s -> DOMAIN s] : \A i, j \in DOMAIN s : q[i] = q[j] => i = j}}

\* Variant of Chunks2: overlapping windows of two.
Chunks2_Sliding(s) ==
    IF Len(s) <= 1 THEN [k \in 1 .. Len(s) |-> <<s[k]>>]
    ELSE [k \in 1 .. (Len(s) - 1) |-> SubSeq(s, k, k + 1)]

\* iter().chunks(2): consecutive chunks of two, the last one shorter when the
\* length is odd.
Chunks2(s) ==
    [k \in 1 .. ((Len(s) + 1) \div 2) |->
        SubSeq(s, 2 * k - 1, IF 2 * k <= Len(s) THEN 2 * k ELSE Len(s))]

\* The chunks wake spawns a Trip for: those with two elements.
Pairs(s) == SelectSeq(Chunks2(s), LAMBDA chunk : Len(chunk) = 2)

RECURSIVE Concat(_, _)
Concat(f, n) == IF n = 0 THEN <<>> ELSE Concat(f, n - 1) \o f[n]

\* Variant of Cleared: the unpaired lane is kept for the next wake.
Cleared_KeepsUnpaired(shuffled) ==
    IF Len(shuffled) % 2 = 1 THEN <<shuffled[Len(shuffled)]>> ELSE <<>>

\* self.lanes = CVec::new() at the end of wake.
Cleared(shuffled) == <<>>

\* <TripCreator as Sleeper>::wake
wake ==
    /\ ~panicked
    /\ wakeUps # <<>>
    /\ wakeUps' = Tail(wakeUps)
    /\ \E shuffled \in Shuffles(lanes) :
         LET pairs == Pairs(shuffled)
             spawned == [k \in DOMAIN pairs |->
                           Trip_spawn(nextId + k - 1, LaneAsRough(pairs[k][1]),
                                      LaneAsRough(pairs[k][2]), None)]
             new == {nextId + k - 1 : k \in DOMAIN pairs}
             of(t) == spawned[t - nextId + 1]
         IN
         /\ nextId + Len(pairs) - 1 <= MaxTrips
         /\ trips' = [t \in TripIds |-> IF t \in new THEN of(t).trip ELSE trips[t]]
         /\ nextId' = nextId + Len(pairs)
         /\ resolving' = resolving (+)
               BagOfSeq(Concat([k \in DOMAIN pairs |-> spawned[k].resolve], Len(pairs)))
         /\ issued' = [t \in TripIds |->
               IF t \in new
                 THEN [i \in DOMAIN of(t).resolve |-> of(t).resolve[i].rough]
                 ELSE issued[t]]
         /\ listenerLog' = [t \in TripIds |->
               IF t \in new THEN of(t).notify ELSE listenerLog[t]]
         /\ lanes' = Cleared(shuffled)
    /\ last' = [op |-> "wake", lanes |-> lanes, nextId |-> nextId]
    /\ UNCHANGED <<finishing, cars, responses, inserted, finished, printed,
                   debuggers, panicked, injected>>

\* ------------------------------------------------------- specifications
TripNext ==
    \/ Spawn
    \/ ResolverAnswers
    \/ AnswerDropped
    \/ FinishDelivered
    \/ FinishDropped
    \/ NetworkResult
    \/ NetworkResultDropped
    \/ ForceStop

CreatorNext ==
    \/ add_lane_for_trip
    \/ wake

\* Trips requested by outside callers, with a resolver that answers every
\* request once.
Spec == Init /\ [][TripNext]_vars

\* One Trip, just spawned by an outside caller with any arguments.
InitOpen ==
    \E rough_source \in RoughLocationID, rough_destination \in RoughLocationID,
       listener \in {None} \cup {Some(l) : l \in Listeners} :
      LET eff == Trip_spawn(1, rough_source, rough_destination, listener) IN
      /\ trips = [t \in TripIds |-> IF t = 1 THEN eff.trip ELSE NoTrip]
      /\ nextId = 2
      /\ resolving = BagOfSeq(eff.resolve)
      /\ finishing = EmptyBag
      /\ cars = EmptyBag
      /\ issued = [t \in TripIds |->
            IF t = 1 THEN [i \in DOMAIN eff.resolve |-> eff.resolve[i].rough] ELSE <<>>]
      /\ responses = [t \in TripIds |-> <<>>]
      /\ inserted = [t \in TripIds |-> <<>>]
      /\ finished = [t \in TripIds |-> <<>>]
      /\ listenerLog = [t \in TripIds |-> IF t = 1 THEN eff.notify ELSE <<>>]
      /\ printed = [t \in TripIds |-> <<>>]
      /\ debuggers = <<>>
      /\ panicked = FALSE
      /\ injected = 0
      /\ lanes = <<>>
      /\ wakeUps = <<>>
      /\ last = NoCall

OpenNext ==
    \/ ResolverAnswers
    \/ AnswerDropped
    \/ Inject
    \/ FinishDelivered
    \/ FinishDropped
    \/ NetworkResult
    \/ NetworkResultDropped
    \/ ForceStop

\* One Trip among outside actors that also send it location_resolved messages
\* it did not ask for.
SpecOpen == InitOpen /\ [][OpenNext]_vars

\* The steps of the Trips that exist, with no new Trip spawned.
LiveNext ==
    \/ ResolverAnswers
    \/ AnswerDropped
    \/ FinishDelivered
    \/ FinishDropped
    \/ NetworkResult
    \/ NetworkResultDropped
    \/ ForceStop

\* One spawned Trip, with the resolver answering every request of a live
\* Trip, the network answering every add_car of a live Trip, and every finish
\* message delivered.
SpecFair ==
    /\ InitOpen
    /\ [][LiveNext]_vars
    /\ WF_vars(ResolverAnswers)
    /\ WF_vars(NetworkResult)
    /\ WF_vars(FinishDelivered)

\* The same Trip, which outside actors may also send finish with any fate.
SpecFinish == InitOpen /\ [][OpenNext \/ AnyFinish]_vars

\* The TripCreator and the timer service.
SpecCreator == Init /\ [][CreatorNext]_vars

\* add_lane_for_trip while the trip ids left suffice for the pairs pending, so
\* that the bound on trips never holds back a wake.
add_lane_within_trips ==
    /\ add_lane_for_trip
    /\ nextId + (Len(lanes') \div 2) - 1 <= MaxTrips

TimerNext ==
    \/ add_lane_within_trips
    \/ wake

\* The TripCreator with a timer service that delivers every wake-up.
SpecTimer == Init /\ [][TimerNext]_vars /\ WF_vars(wake)

\* ------------------------------------------------------------ the claims
Spawned(t) == trips[t].status # "unspawned"
Alive(t) == trips[t].status = "alive"
Dead(t) == trips[t].status = "dead"
HasListener(t) == IsSome(trips[t].listener)
\* The trip_result notifications sent to the listener of trip t.
TripResultsOf(t) == SelectSeq(listenerLog[t], LAMBDA n : n.message = "trip_result")
\* The finish messages in flight to trip t.
FinishesTo(t) == {m \in BagToSet(finishing) : m.trip = t}
\* Trip t handled an absent resolution as its i-th response.
FailedAt(t, i) == i \in DOMAIN responses[t] /\ responses[t][i].location = None
Failed(t) == \E i \in DOMAIN responses[t] : FailedAt(t, i)
\* The result a Trip reports for a failed resolution.
NotResolvable(t) ==
    TripResult(Some(trips[t].rough_source), "SourceOrDestinationNotResolvable")
\* The add_car request the claims expect for source p and destination q.
IsInsertOf(car, t, p, q) ==
    /\ car.to = p.node
    /\ car.trip = t
    /\ car.position = p.offset
    /\ car.velocity = 0
    /\ car.acceleration = 0
    /\ car.destination = q
    /\ car.next_hop_interaction = None

\* C1: whatever location_resolved and finish messages a Trip is sent (its own
\* finish after a failed resolution and outside terminal results included),
\* its finish handler runs at most once; the Trip is dead exactly when it has
\* run; a listener gets one trip_result per run, carrying the handled result;
\* and a finish the Trip sent itself is either still in flight or the Trip has
\* terminated.
C1_OneTermination ==
    \A t \in TripIds :
      /\ Len(finished[t]) <= 1
      /\ Dead(t) <=> Len(finished[t]) = 1
      /\ Len(TripResultsOf(t)) = (IF HasListener(t) THEN Len(finished[t]) ELSE 0)
      /\ \A i \in DOMAIN TripResultsOf(t) : TripResultsOf(t)[i].result = finished[t][i]
      /\ Failed(t) => Dead(t) \/ [trip |-> t, result |-> NotResolvable(t)] \in FinishesTo(t)

\* C1 witness: a Trip has terminated and a further finish message to it, sent
\* after a failed resolution or from outside, is still in flight.
C1_Witness ==
    \E t \in TripIds :
      /\ Dead(t)
      /\ Failed(t)
      /\ Len(finished[t]) = 1
      /\ FinishesTo(t) # {}

\* C2: for a Trip with distinct rough endpoints whose source and then
\* destination resolve, exactly one add_car is ever sent; it goes to the
\* source's node with position = source offset, the resolved destination,
\* velocity 0, acceleration 0 and no next hop; and while the Trip lives its
\* listener has received trip_created and no trip_result.
C2_OneInsert ==
    \A t \in TripIds :
      (Spawned(t) /\ trips[t].rough_source # trips[t].rough_destination) =>
        /\ Len(inserted[t]) <= 1
        /\ ( /\ Len(responses[t]) >= 2
             /\ responses[t][1].rough = trips[t].rough_source
             /\ IsSome(responses[t][1].location)
             /\ responses[t][2].rough = trips[t].rough_destination
             /\ IsSome(responses[t][2].location) ) =>
             /\ Len(inserted[t]) = 1
             /\ IsInsertOf(inserted[t][1], t, Unwrap(responses[t][1].location),
                           Unwrap(responses[t][2].location))
             /\ (Alive(t) /\ HasListener(t)) =>
                  listenerLog[t] = <<[listener |-> Unwrap(trips[t].listener),
                                      message |-> "trip_created", trip |-> t]>>

\* C2 witness: the scenario of the spec, X -> (N1, 5), then Y -> (N2, 1), with
\* a listener, right after the insert.
C2_Witness ==
    \E t \in TripIds :
      /\ Alive(t) /\ HasListener(t)
      /\ responses[t] = <<[rough |-> 1, location |-> Some([node |-> 1, offset |-> 5])],
                          [rough |-> 2, location |-> Some([node |-> 2, offset |-> 1])]>>
      /\ Len(inserted[t]) = 1
      /\ inserted[t][1].to = 1 /\ inserted[t][1].position = 5
      /\ inserted[t][1].destination = [node |-> 2, offset |-> 1]

\* C3: once a Trip has handled an absent resolution, that was the last
\* response it handled, it has asked for its own termination with
\* SourceOrDestinationNotResolvable, it has issued only the requests issued
\* before (the source's alone when the source failed), and it has sent no
\* add_car.
C3_FailureStops ==
    \A t \in TripIds : \A i \in DOMAIN responses[t] :
      FailedAt(t, i) =>
        /\ i = Len(responses[t])
        /\ inserted[t] = <<>>
        /\ issued[t] = (IF i = 1 THEN <<trips[t].rough_source>>
                                 ELSE <<trips[t].rough_source, trips[t].rough_destination>>)
        /\ Alive(t) => [trip |-> t, result |-> NotResolvable(t)] \in FinishesTo(t)
        /\ \A c \in BagToSet(cars) : c.trip # t

\* C3 witness: the source failed to resolve and the Trip has since terminated
\* with that fate, having asked for nothing but its source.
C3_Witness ==
    \E t \in TripIds :
      /\ FailedAt(t, 1)
      /\ trips[t].rough_source # trips[t].rough_destination
      /\ Dead(t)
      /\ finished[t] = <<NotResolvable(t)>>
      /\ issued[t] = <<trips[t].rough_source>>

\* The trip_result notification of trip t carrying `result`.
TripResultNote(t, result) ==
    [listener |-> Unwrap(trips[t].listener), message |-> "trip_result", trip |-> t,
     result |-> result, rough_source |-> trips[t].rough_source,
     rough_destination |-> trips[t].rough_destination]

C5_SameEndpoints ==
    \A t \in TripIds :
      (Spawned(t) /\ trips[t].rough_source = trips[t].rough_destination) =>
        /\ issued[t] = <<trips[t].rough_source>>
        /\ Len(responses[t]) <= 1
        /\ responses[t] = <<>> =>
             /\ trips[t].source = None /\ trips[t].destination = None
             /\ inserted[t] = <<>>
        /\ (responses[t] # <<>> /\ IsSome(responses[t][1].location)) =>
             /\ trips[t].source = responses[t][1].location
             /\ trips[t].destination = responses[t][1].location
             /\ Len(inserted[t]) = 1
             /\ IsInsertOf(inserted[t][1], t, Unwrap(responses[t][1].location),
                           Unwrap(responses[t][1].location))

\* C5 witness: such a Trip right after its one successful response.
C5_Witness ==
    \E t \in TripIds :
      /\ Alive(t)
      /\ trips[t].rough_source = trips[t].rough_destination
      /\ Len(responses[t]) = 1
      /\ IsSome(trips[t].source) /\ trips[t].source = trips[t].destination
      /\ Len(inserted[t]) = 1
      /\ resolving = EmptyBag

\* The two successful responses of trip t, for its source and its destination.
SourceResponse(t, r) == r.rough = trips[t].rough_source /\ IsSome(r.location)
DestinationResponse(t, r) == r.rough = trips[t].rough_destination /\ IsSome(r.location)

C7_WakeEmpties ==
    last.op = "wake" => lanes = <<>>

\* C7 witness: a wake that found an odd number of lanes, one of them unpaired.
C7_Witness ==
    /\ last.op = "wake"
    /\ Len(last.lanes) = 3
    /\ lanes = <<>>

\* The endpoints of trips first .. first + n - 1, as a sequence.
RECURSIVE EndpointsOf(_, _)
EndpointsOf(first, n) ==
    IF n = 0 THEN <<>>
    ELSE EndpointsOf(first, n - 1) \o
           <<trips[first + n - 1].rough_source, trips[first + n - 1].rough_destination>>

\* C8: a wake that found n pending lanes has spawned floor(n/2) trips, none
\* with a listener; their endpoints, counted with multiplicity, are pending
\* entries each used at most once, and n mod 2 entries are left over; for two
\* pending lanes the one trip runs between exactly those two.
C8_WakePairs ==
    last.op = "wake" =>
      LET n == Len(last.lanes)
          spawned == nextId - last.nextId
          used == BagOfSeq(EndpointsOf(last.nextId, spawned))
          pending == BagOfSeq(last.lanes)
      IN
      /\ spawned = n \div 2
      /\ \A t \in last.nextId .. (nextId - 1) :
           /\ Alive(t)
           /\ trips[t].listener = None
           /\ listenerLog[t] = <<>>
      /\ used \sqsubseteq pending
      /\ BagCardinality(pending (-) used) = n % 2
      /\ n = 2 =>
           {trips[last.nextId].rough_source, trips[last.nextId].rough_destination}
             = {LaneAsRough(last.lanes[1]), LaneAsRough(last.lanes[2])}

\* C8 witness: a wake on three different lanes spawned one trip between two
\* of them.
C8_Witness ==
    /\ last.op = "wake"
    /\ Len(last.lanes) = 3
    /\ Cardinality({last.lanes[i] : i \in 1 .. 3}) = 3
    /\ nextId = last.nextId + 1
    /\ trips[last.nextId].rough_source # trips[last.nextId].rough_destination

\* C9: add_lane_for_trip appends the lane, and schedules one wake-up, 50 ticks
\* ahead, exactly when the collection then holds more than one lane; the first
\* lane added to an empty collection schedules none.
C9_AddSchedules ==
    last.op = "add_lane_for_trip" =>
      /\ lanes = Append(last.lanes, last.lane_id)
      /\ IF Len(last.lanes) + 1 > 1
           THEN wakeUps = Append(last.wakeUps, 50)
           ELSE wakeUps = last.wakeUps
      /\ last.lanes = <<>> => wakeUps = last.wakeUps

\* C9 witness: the second lane was just added and the first wake-up scheduled.
C9_Witness ==
    /\ last.op = "add_lane_for_trip"
    /\ Len(lanes) = 2
    /\ last.wakeUps = <<>>
    /\ wakeUps = <<50>>

\* A successful response for a rough location that is neither endpoint of t.
Stranger(t, r) ==
    /\ IsSome(r.location)
    /\ r.rough # trips[t].rough_source
    /\ r.rough # trips[t].rough_destination

\* C10: a Trip hits unreachable!() exactly when it handles a successful
\* response for a rough location that is neither its source nor its
\* destination, and that invocation changes no field of the Trip and sends
\* nothing: no resolution request, no add_car, no finish, no listener
\* notification, no diagnostic.
C10_ProtocolError ==
    /\ [](panicked <=>
            \E t \in TripIds : \E i \in DOMAIN responses[t] : Stranger(t, responses[t][i]))
    /\ [][(panicked' /\ ~panicked) =>
            UNCHANGED <<trips, resolving, finishing, cars, issued, inserted,
                        finished, listenerLog, printed, debuggers>>]_vars

\* C10 witness: a Trip whose source and destination are both resolved was sent
\* a stranger's answer and hit unreachable!().
C10_Witness ==
    /\ panicked
    /\ \E t \in TripIds :
         /\ Alive(t)
         /\ IsSome(trips[t].source) /\ IsSome(trips[t].destination)
         /\ Len(inserted[t]) = 1
         /\ finished[t] = <<>>
         /\ Stranger(t, responses[t][Len(responses[t])])

\* The diagnostic finish prints for trip t and a failed fate.
Diagnostic(t, fate) ==
    [trip |-> t, reason |-> fate,
     rough_source |-> trips[t].rough_source, source |-> trips[t].source,
     rough_destination |-> trips[t].rough_destination,
     destination |-> trips[t].destination]

\* C11: finish, in whatever state the Trip is and whatever the fate, kills the
\* Trip, sends trip_result to the listener exactly when there is one, prints
\* the diagnostic exactly when the fate is neither Success nor ForceStopped,
\* and spawns no FailedTripDebugger; a Trip that has not finished has printed
\* nothing and sent no trip_result.
C11_Finish ==
    /\ debuggers = <<>>
    /\ \A t \in TripIds :
         /\ finished[t] = <<>> => printed[t] = <<>> /\ TripResultsOf(t) = <<>>
         /\ finished[t] # <<>> =>
              LET result == finished[t][1] IN
              /\ Dead(t)
              /\ TripResultsOf(t) =
                   (IF HasListener(t) THEN <<TripResultNote(t, result)>> ELSE <<>>)
              /\ printed[t] =
                   (IF result.fate \in {"Success", "ForceStopped"}
                      THEN <<>> ELSE <<Diagnostic(t, result.fate)>>)

\* C11 witness: a Trip still waiting for its source was sent finish with
\* LaneUnbuilt: it died, told its listener and printed the diagnostic.
C11_Witness ==
    \E t \in TripIds :
      /\ Dead(t) /\ HasListener(t)
      /\ responses[t] = <<>>
      /\ finished[t] = <<TripResult(None, "LaneUnbuilt")>>
      /\ Len(TripResultsOf(t)) = 1
      /\ printed[t] = <<Diagnostic(t, "LaneUnbuilt")>>

\* Trip t is as spawn left it: it has handled no message yet.
JustSpawned(t) == Spawned(t) /\ responses[t] = <<>> /\ finished[t] = <<>>
\* The resolution requests in flight that name trip t as requester.
RequestsOf(t) == {r \in BagToSet(resolving) : r.requester = t}
\* The trip_created notifications sent to the listener of trip t.
TripCreatedOf(t) == SelectSeq(listenerLog[t], LAMBDA n : n.message = "trip_created")

\* C12: a Trip that spawn has just built has issued one resolution request,
\* for rough_source and with itself as requester, and none for
\* rough_destination; it has sent its listener trip_created once, or nothing
\* to anyone when it has no listener; its source and destination are absent.
\* No later handler sends trip_created again.
C12_Spawn ==
    \A t \in TripIds :
      /\ ~Spawned(t) => issued[t] = <<>> /\ listenerLog[t] = <<>>
      /\ Spawned(t) =>
           /\ Len(TripCreatedOf(t)) = (IF HasListener(t) THEN 1 ELSE 0)
           /\ ~HasListener(t) => listenerLog[t] = <<>>
      /\ JustSpawned(t) =>
           /\ Alive(t)
           /\ issued[t] = <<trips[t].rough_source>>
           /\ RequestsOf(t) = {[requester |-> t, rough |-> trips[t].rough_source]}
           /\ \A r \in RequestsOf(t) : CopiesIn(r, resolving) = 1
           /\ listenerLog[t] =
                (IF HasListener(t)
                   THEN <<[listener |-> Unwrap(trips[t].listener),
                           message |-> "trip_created", trip |-> t]>>
                   ELSE <<>>)
           /\ trips[t].source = None /\ trips[t].destination = None
           /\ inserted[t] = <<>> /\ printed[t] = <<>>

\* C12 witness: a Trip with a listener and distinct rough endpoints has just
\* been spawned; its only request is the one for rough_source.
C12_Witness ==
    \E t \in TripIds :
      /\ JustSpawned(t) /\ HasListener(t)
      /\ trips[t].rough_source # trips[t].rough_destination
      /\ issued[t] = <<trips[t].rough_source>>
      /\ Len(listenerLog[t]) = 1

\* The wake-ups a pending collection has scheduled itself: one for every lane
\* added after the first.
OwnWakeUps(pending) == IF pending = <<>> THEN 0 ELSE Len(pending) - 1
\* The last handler call was a wake whose wake-up no lane pending at the time
\* had scheduled: it was left over from a collection an earlier wake drained.
RedundantWake ==
    /\ last.op = "wake"
    /\ Len(wakeUps) + 1 > OwnWakeUps(last.lanes)

\* C13: delivering a redundant wake-up discards no endpoint that one wake-up
\* per batch would have kept: it never finds a pending endpoint that is alone,
\* which no wake-up of its own batch would have found alone.
C13_RedundantWakeUps ==
    RedundantWake => Len(last.lanes) # 1

\* Trip t holds both resolved endpoints and has sent its add_car.
Inserted(t) ==
    /\ IsSome(trips[t].source) /\ IsSome(trips[t].destination)
    /\ inserted[t] # <<>>

\* C14, the fields: source is present only if the Trip handled a successful
\* response for rough_source, and holds that answer; destination likewise for
\* rough_destination; a Trip holding both has sent its add_car.
C14_FieldsResolved ==
    \A t \in TripIds :
      /\ IsSome(trips[t].source) =>
           \E i \in DOMAIN responses[t] :
             /\ SourceResponse(t, responses[t][i])
             /\ trips[t].source = responses[t][i].location
      /\ IsSome(trips[t].destination) =>
           \E i \in DOMAIN responses[t] :
             /\ DestinationResponse(t, responses[t][i])
             /\ trips[t].destination = responses[t][i].location
      /\ IsSome(trips[t].source) /\ IsSome(trips[t].destination) => Inserted(t)

\* C14, the steps: once a Trip holds both endpoints and has sent add_car, no
\* step changes source or destination, issues a request or sends add_car.
C14_NoFurtherChange ==
    \A t \in TripIds :
      Inserted(t) =>
        /\ trips'[t].source = trips[t].source
        /\ trips'[t].destination = trips[t].destination
        /\ issued'[t] = issued[t]
        /\ inserted'[t] = inserted[t]

\* C14: in every reachable Trip state source and destination are present only
\* after the successful response for their rough location, and once both are
\* present and add_car is sent neither changes again and nothing more is
\* requested, up to and beyond the Trip's end.
C14_Settled == []C14_FieldsResolved /\ [][C14_NoFurtherChange]_vars

\* C14 witness: a Trip with distinct endpoints that resolved both, sent add_car
\* and then finished, with nothing further requested.
C14_Witness ==
    \E t \in TripIds :
      /\ Dead(t) /\ Inserted(t)
      /\ trips[t].rough_source # trips[t].rough_destination
      /\ issued[t] = <<trips[t].rough_source, trips[t].rough_destination>>
      /\ Len(inserted[t]) = 1

\* Trip t has been spawned with two different rough endpoints.
Distinct(t) == Spawned(t) /\ trips[t].rough_source # trips[t].rough_destination
\* The number of resolution requests of trip t still unanswered.
Outstanding(t) == BagCardinality([r \in RequestsOf(t) |-> CopiesIn(r, resolving)])

\* C15, the states: a Trip with distinct rough endpoints has at most one
\* request unanswered, has issued the request for rough_source and then at
\* most the one for rough_destination, and has issued the second only if it
\* handled a successful response for rough_source.
C15_OneOutstanding ==
    \A t \in TripIds :
      Distinct(t) =>
        /\ Outstanding(t) <= 1
        /\ issued[t] \in {<<trips[t].rough_source>>,
                          <<trips[t].rough_source, trips[t].rough_destination>>}
        /\ Len(issued[t]) = 2 =>
             \E i \in DOMAIN responses[t] : SourceResponse(t, responses[t][i])

\* C15, the steps: a spawned Trip with distinct rough endpoints issues a
\* request only in the step in which it handles a successful response for
\* rough_source, and that request is the one for rough_destination.
C15_AskedOnSource ==
    \A t \in TripIds :
      Distinct(t) /\ issued'[t] # issued[t] =>
        /\ issued'[t] = Append(issued[t], trips[t].rough_destination)
        /\ Len(responses'[t]) = Len(responses[t]) + 1
        /\ SubSeq(responses'[t], 1, Len(responses[t])) = responses[t]
        /\ SourceResponse(t, responses'[t][Len(responses'[t])])
        /\ Outstanding(t) = 1

\* C15: with each request answered once, a Trip with distinct rough endpoints
\* asks for rough_destination only while handling the successful response for
\* rough_source; it never has two requests unanswered and issues at most two.
C15_Sequential == []C15_OneOutstanding /\ [][C15_AskedOnSource]_vars

\* C15 witness: the source is resolved, the request for the destination is the
\* only one unanswered, and it is the second the Trip issued.
C15_Witness ==
    \E t \in TripIds :
      /\ Distinct(t) /\ Alive(t)
      /\ Len(responses[t]) = 1 /\ SourceResponse(t, responses[t][1])
      /\ issued[t] = <<trips[t].rough_source, trips[t].rough_destination>>
      /\ RequestsOf(t) = {[requester |-> t, rough |-> trips[t].rough_destination]}
      /\ Outstanding(t) = 1

\* C16, termination: every spawned Trip eventually runs finish and dies.
C16_EventuallyFinished ==
    \A t \in TripIds : Spawned(t) ~> (Dead(t) /\ Len(finished[t]) = 1)

\* C16, waiting: a live Trip with a request unanswered does not move in a step
\* that answers none of its requests: it keeps its fields and sends nothing,
\* unless a ForceStopped from outside ends it.
C16_StaysWaiting ==
    \A t \in TripIds :
      Alive(t) /\ RequestsOf(t) # {} /\ responses'[t] = responses[t] =>
        \/ /\ trips'[t] = trips[t]
           /\ finished'[t] = finished[t]
           /\ issued'[t] = issued[t] /\ inserted'[t] = inserted[t]
           /\ listenerLog'[t] = listenerLog[t] /\ printed'[t] = printed[t]
           /\ \A m \in BagToSet(finishing') :
                m.trip = t => m.result.fate = "ForceStopped"
        \/ /\ trips'[t] = [trips[t] EXCEPT !.status = "dead"]
           /\ finished'[t] = <<TripResult(None, "ForceStopped")>>

\* C16: if every request and every add_car of a live Trip is answered and
\* every finish message is delivered, every spawned Trip eventually finishes;
\* while its request stays unanswered the Trip stays as it is and never
\* finishes on its own.
C16_Termination == C16_EventuallyFinished /\ [][C16_StaysWaiting]_vars

\* C16 witness: a Trip went through both resolutions and the add_car, and
\* finished with the network's result.
C16_Witness ==
    \E t \in TripIds :
      /\ Dead(t) /\ Distinct(t)
      /\ Len(responses[t]) = 2 /\ Len(inserted[t]) = 1
      /\ Len(finished[t]) = 1 /\ finished[t][1].fate = "Success"

\* C17, the states: two or more pending lanes have a wake-up undelivered.
C17_WakeUpPending == Len(lanes) >= 2 => wakeUps # <<>>

\* C17: whenever two or more lanes are pending a scheduled wake-up is still
\* undelivered, so with every wake-up delivered the pending collection is
\* eventually drained.
C17_Drained ==
    /\ []C17_WakeUpPending
    /\ (Len(lanes) >= 2) ~> (lanes = <<>>)

\* C17 witness: after an earlier wake, one lane was pending with no wake-up
\* outstanding; the second lane has just been added and scheduled one.
C17_Witness ==
    /\ last.op = "add_lane_for_trip"
    /\ Len(last.lanes) = 1 /\ last.wakeUps = <<>>
    /\ Len(lanes) = 2 /\ Len(wakeUps) = 1
    /\ nextId > 1

\* Trip t has handled a finish.
Finished(t) == finished[t] # <<>>
\* Trip t handled its finish while a request of its own was unanswered: it
\* has issued more requests than it has handled responses.
FinishedWhileAsking(t) == Finished(t) /\ Len(issued[t]) > Len(responses[t])

\* C18, the states: a Trip that handled finish while its request was
\* unanswered is dead, has sent no add_car, and has sent its listener one
\* trip_result, carrying the result it was finished with.
C18_DestroyedWhileAsking ==
    \A t \in TripIds :
      FinishedWhileAsking(t) =>
        /\ Dead(t)
        /\ Len(finished[t]) = 1
        /\ inserted[t] = <<>>
        /\ \A c \in BagToSet(cars) : c.trip # t
        /\ TripResultsOf(t) =
             (IF HasListener(t) THEN <<TripResultNote(t, finished[t][1])>> ELSE <<>>)

\* C18, the steps: once a Trip has handled finish, no step, the arrival of the
\* late response included, changes it, issues a request, sends add_car,
\* notifies the listener or runs a handler of it.
C18_LateResponseIgnored ==
    \A t \in TripIds :
      Finished(t) =>
        /\ trips'[t] = trips[t]
        /\ issued'[t] = issued[t]
        /\ inserted'[t] = inserted[t]
        /\ listenerLog'[t] = listenerLog[t]
        /\ printed'[t] = printed[t]
        /\ responses'[t] = responses[t]
        /\ finished'[t] = finished[t]
        /\ \A r \in BagToSet(resolving') : r.requester = t => r \in BagToSet(resolving)
        /\ \A m \in BagToSet(finishing') : m.trip = t => m \in BagToSet(finishing)

\* C18: a terminal result handled while a resolution request is unanswered
\* destroys the Trip, and the response that arrives afterwards causes no
\* add_car, no further request and no second trip_result.
C18_Cancelled == []C18_DestroyedWhileAsking /\ [][C18_LateResponseIgnored]_vars

\* C18 witness: ForceStopped was handled while the request for the
\* destination was unanswered; the response has since arrived and is gone,
\* and the listener has the one trip_result.
C18_Witness ==
    \E t \in TripIds :
      /\ Dead(t) /\ HasListener(t) /\ Distinct(t)
      /\ finished[t] = <<TripResult(None, "ForceStopped")>>
      /\ Len(responses[t]) = 1 /\ Len(issued[t]) = 2
      /\ RequestsOf(t) = {}
      /\ Len(TripResultsOf(t)) = 1
      /\ inserted[t] = <<>>

\* C19: what a Trip has sent its listener is trip_created first and then at
\* most one trip_result, both naming the trip and its listener; a Trip without
\* a listener has sent no notification, finished or not.
C19_CreatedBeforeResult ==
    \A t \in TripIds :
      /\ Spawned(t) /\ HasListener(t) =>
           /\ Len(listenerLog[t]) \in {1, 2}
           /\ listenerLog[t][1].message = "trip_created"
           /\ Len(listenerLog[t]) = 2 <=> Finished(t)
           /\ Len(listenerLog[t]) = 2 => listenerLog[t][2].message = "trip_result"
           /\ \A i \in DOMAIN listenerLog[t] :
                /\ listenerLog[t][i].trip = t
                /\ listenerLog[t][i].listener = Unwrap(trips[t].listener)
      /\ Spawned(t) /\ ~HasListener(t) => listenerLog[t] = <<>>

\* C19 witness: a finished Trip whose listener was sent trip_created and then
\* trip_result.
C19_Witness ==
    \E t \in TripIds :
      /\ Finished(t) /\ HasListener(t)
      /\ Len(listenerLog[t]) = 2
      /\ listenerLog[t][1].message = "trip_created"
      /\ listenerLog[t][2].message = "trip_result"
====
